---- MODULE Spec2Model ----
(***************************************************************************)
(* Fine / overdue reconciliation of the library portal:                    *)
(*   - the Fine Calculator  (FineService.calculateOverdueFine)             *)
(*   - the Fine Ledger      (createOverdueFine, createLostBookFine,        *)
(*                           payFine, waiveFine)                           *)
(*   - the Overdue Sweep    (processOverdueFines)                          *)
(*   - the Lending Desk     (reserve, issue, return of routes/borrows.js)  *)
(*   - the Notifications    (sendNotification and the record's methods)    *)
(*                                                                         *)
(* Time is counted in ticks of half an hour, money in thousandths of a KES *)
(* (so that the two date differences and the rounding to two decimals are  *)
(* real computations).                                                     *)
(*                                                                         *)
(* The specifications share the variables:                                 *)
(*   Spec      every handler runs to completion (one action per call)      *)
(*   SpecConc  createOverdueFine / processOverdueFines interleave at their  *)
(*             awaits                                                      *)
(*   SpecLive  the sweep on its timer, under weak fairness                 *)
(*   SpecCalc  the calculator alone, over wide inputs                      *)
(*   SpecLib   the lending desk with the fines, one request at a time      *)
(*   SpecIssue issue requests interleave at their awaits                   *)
(*   SpecCfg   createOverdueFine while the policy is updated               *)
(*   SpecNotif the notification record                                     *)
(***************************************************************************)
EXTENDS Integers, Sequences, FiniteSets, TLC

VARIABLES now, config, borrows, fines, fineBalance, charges, deductions, notices,
          calcResult, procs,
          availableCopies, currentBooksBorrowed, requests, notifications

vars == <<now, config, borrows, fines, fineBalance, charges, deductions, notices,
          calcResult, procs,
          availableCopies, currentBooksBorrowed, requests, notifications>>

(* The books' copies, the members' loan counters, the issue requests in flight
   and the notification records *)
deskVars == <<availableCopies, currentBooksBorrowed, requests, notifications>>

----------------------------------------------------------------------------
(* Bounds of the model *)

NumLoans == 2
MaxFines == 2
NumUsers == 2
MaxDays == 4
MaxDeductions == 2
NumProcs == 2

(* Program constants *)

DefaultGracePeriod == 2
DefaultDailyRate == 50
DefaultHourlyRate == 5
DefaultMaxFine == 2000
LostBookMultiplier == 2
HoursPerDay == 24
TicksPerHour == 2
Mills == 1000

NumBooks == 2
MaxBooksAllowed == 3
DefaultMaxRetries == 3
MaxNotifications == 1

Loans == 1 .. NumLoans
Books == 1 .. NumBooks
Users == 1 .. NumUsers
Procs == 1 .. NumProcs
TicksPerDay == HoursPerDay * TicksPerHour
MaxNow == MaxDays * TicksPerDay

(* 0 is an id no borrow and no fine has *)
LoanIds == 0 .. NumLoans

----------------------------------------------------------------------------
(* Fine Calculator *)

Max(a, b) == IF a >= b THEN a ELSE b
Min(a, b) == IF a <= b THEN a ELSE b

(* moment#diff(unit) truncates toward zero *)
TruncDiv(a, b) == IF a >= 0 THEN a \div b ELSE -((-a) \div b)

(* A day count that includes the due day *)
DiffDays_Inclusive(t, due) == TruncDiv(t - due, TicksPerDay) + 1

DiffDays(t, due) == TruncDiv(t - due, TicksPerDay)
DiffHours(t, due) == TruncDiv(t - due, TicksPerHour)

(* Math.round(x * 100) / 100 on an amount in thousandths *)
Round2(x) == ((x + 5) \div 10) * 10

DefaultConfig ==
  [gracePeriod |-> DefaultGracePeriod,
   dailyRate   |-> DefaultDailyRate * Mills,
   hourlyRate  |-> DefaultHourlyRate * Mills,
   rateType    |-> "per_day",
   maxFine     |-> DefaultMaxFine * Mills]

(* An hourly amount that counts the hours of the running day only *)
RawAmount_RunningDay(overdueDays, overdueHours, cfg) ==
  IF cfg.rateType = "per_hour"
    THEN (Max(0, overdueHours - cfg.gracePeriod * HoursPerDay) % HoursPerDay) * cfg.hourlyRate
    ELSE Max(0, overdueDays - cfg.gracePeriod) * cfg.dailyRate

(* An hourly amount that takes its hours from the whole days *)
RawAmount_HoursFromDays(overdueDays, overdueHours, cfg) ==
  IF cfg.rateType = "per_hour"
    THEN Max(0, overdueDays * HoursPerDay - cfg.gracePeriod * HoursPerDay) * cfg.hourlyRate
    ELSE Max(0, overdueDays - cfg.gracePeriod) * cfg.dailyRate

(* The amount before the cap: lines 46-52 *)
RawAmount(overdueDays, overdueHours, cfg) ==
  IF cfg.rateType = "per_hour"
    THEN Max(0, overdueHours - cfg.gracePeriod * HoursPerDay) * cfg.hourlyRate
    ELSE Max(0, overdueDays - cfg.gracePeriod) * cfg.dailyRate

(* The amount returned without the cap *)
ApplyMaxFine_Uncapped(amount, maxFine) == amount

(* The cap: lines 55-56 *)
ApplyMaxFine(amount, maxFine) == Min(amount, maxFine)

(* The grace check: line 41 *)
(* The grace test with the boundary day charged *)
WithinGrace_Strict(overdueDays, gracePeriod) == overdueDays < gracePeriod

WithinGrace(overdueDays, gracePeriod) == overdueDays <= gracePeriod

NoCalc == [err |-> "none", fineAmount |-> 0, gracePeriodUsed |-> FALSE,
           overdueDays |-> 0, rateType |-> "", dailyRate |-> 0, hourlyRate |-> 0]

(* calculateOverdueFine on a loaded borrow record b at time t under cfg.
   err is "" when the call returns. *)
calculateOverdueFine(b, t, cfg) ==
  IF b.status = "completed"
    THEN [err |-> "InvalidOrCompleted", fineAmount |-> 0, gracePeriodUsed |-> FALSE,
          overdueDays |-> 0, rateType |-> "", dailyRate |-> 0, hourlyRate |-> 0]
    ELSE LET overdueDays == DiffDays(t, b.dueDate) IN
         IF WithinGrace(overdueDays, cfg.gracePeriod)
           THEN [err |-> "", fineAmount |-> 0, gracePeriodUsed |-> TRUE,
                 overdueDays |-> 0, rateType |-> "", dailyRate |-> 0, hourlyRate |-> 0]
           ELSE [err |-> "",
                 fineAmount |-> Round2(ApplyMaxFine(
                     RawAmount(overdueDays, DiffHours(t, b.dueDate), cfg), cfg.maxFine)),
                 gracePeriodUsed |-> FALSE,
                 overdueDays |-> overdueDays,
                 rateType |-> cfg.rateType,
                 dailyRate |-> cfg.dailyRate,
                 hourlyRate |-> cfg.hourlyRate]

----------------------------------------------------------------------------
(* The stores.  A db is the record of the collections a handler reads and
   writes: db.borrows, db.fines, db.fineBalance, db.notices, and two counts
   kept beside them: db.charges[l], how often fineBalance was incremented for
   an overdue fine of loan l, and db.deductions[f], how often the amount of
   fine f was taken off fineBalance. *)

DueOf(l) == (l - 1) * (TicksPerDay \div 2)
PriceOf(l) == l * 500 * Mills

InitBorrows ==
  [l \in Loans |->
     [user |-> ((l - 1) % NumUsers) + 1, book |-> ((l - 1) % NumBooks) + 1,
      type |-> "borrowed", status |-> "active",
      dueDate |-> DueOf(l), isLost |-> FALSE, price |-> PriceOf(((l - 1) % NumBooks) + 1)]]

(* Book b has b copies *)
TotalCopiesOf(b) == b

ActiveBorrowed(bs, l) == bs[l].type = "borrowed" /\ bs[l].status = "active"
LoansOfBook(bs, b) == {l \in 1 .. Len(bs) : bs[l].book = b /\ ActiveBorrowed(bs, l)}
LoansOfUser(bs, u) == {l \in 1 .. Len(bs) : bs[l].user = u /\ ActiveBorrowed(bs, l)}

IdleRequest == [pc |-> "idle", user |-> 0, book |-> 0, borrowedRead |-> 0, balanceRead |-> 0,
                copiesRead |-> 0]

(* The desk's state that goes with the loans of InitBorrows *)
InitDesk ==
  /\ availableCopies = [b \in Books |-> TotalCopiesOf(b) - Cardinality(LoansOfBook(InitBorrows, b))]
  /\ currentBooksBorrowed = [u \in Users |-> Cardinality(LoansOfUser(InitBorrows, u))]
  /\ requests = [p \in Procs |-> IdleRequest]
  /\ notifications = << >>

FineIds(fs) == 1 .. Len(fs)

(* Fine.findOne({ borrow, type }): the ids of the matching fines *)
FinesOf(fs, l, type) == {i \in FineIds(fs) : fs[i].borrow = l /\ fs[i].type = type}

(* The duplicate check looking at lost-book fines only *)
ExistingFine_LostOnly(fs, l, type) == FinesOf(fs, l, "lost") # {}

ExistingFine(fs, l, type) == FinesOf(fs, l, type) # {}

OverdueCount(fs, l) == Cardinality(FinesOf(fs, l, "overdue"))
AllFinesOfLoan(fs, l) == {i \in FineIds(fs) : fs[i].borrow = l}
FinesOfUser(fs, u) == {i \in FineIds(fs) : fs[i].user = u}

(* User.findByIdAndUpdate(u, { $inc: { fineBalance: delta } }) *)
IncBalance(bal, u, delta) == [bal EXCEPT ![u] = @ + delta]

Outcome(db, outcome, fine) == [db |-> db, outcome |-> outcome, fine |-> fine]

(* Failures the environment can inject into one call *)
FailModes == {"none", "store", "notify"}

(* The failures during which the store still answers *)
StoreUp == {"none", "notify"}

(* What a call does once sendFineNotice / sendNotification has thrown *)
OnNotifyFailure(ok) == "NotifyError"

NotifyOutcome(fail, ok) == IF fail = "notify" THEN OnNotifyFailure(ok) ELSE ok

(* A result that is persisted even when its amount is 0 *)
NoFineDue_Never(calc) == FALSE

(* Line 91: if (fineCalculation.fineAmount === 0) return null *)
NoFineDue(calc) == calc.fineAmount = 0

(* createOverdueFine(borrowId): lines 73-122 *)
createOverdueFine(db, l, t, cfg, fail) ==
  IF l \notin Loans THEN Outcome(db, "NotFound", 0)
  ELSE IF fail = "store" THEN Outcome(db, "DbError", 0)
  ELSE IF ExistingFine(db.fines, l, "overdue") THEN Outcome(db, "DuplicateFine", 0)
  ELSE LET b == db.borrows[l]
           calc == calculateOverdueFine(b, t, cfg)
       IN IF calc.err # "" THEN Outcome(db, calc.err, 0)
          ELSE IF NoFineDue(calc) THEN Outcome(db, "null", 0)
                    ELSE LET fine == [user |-> b.user, borrow |-> l, amount |-> calc.fineAmount,
                            type |-> "overdue", status |-> "pending",
                            baseAmount |-> calc.fineAmount,
                            rateType |-> calc.rateType,
                            rate |-> IF calc.rateType = "per_hour"
                                       THEN calc.hourlyRate ELSE calc.dailyRate,
                            gracePeriod |-> cfg.gracePeriod,
                            overdueDays |-> calc.overdueDays,
                            paidBy |-> "none", paidAt |-> 0 - 1]
                   id == Len(db.fines) + 1
                   db2 == [db EXCEPT
                             !.fines = Append(@, fine),
                             !.deductions = Append(@, 0),
                             !.fineBalance = IncBalance(@, b.user, calc.fineAmount),
                             !.charges = [@ EXCEPT ![l] = @ + 1],
                             !.notices = @ \cup {<<"fine_notice", id>>}]
               IN Outcome(db2, NotifyOutcome(fail, "ok"), id)

(* createLostBookFine(borrowId, issuedBy, replacementCost): lines 125-179.
   cost is << >> for a null replacementCost and <<c>> for the value c. *)
BookValue(cost, price) == IF cost # << >> /\ cost[1] # 0 THEN cost[1] ELSE price

createLostBookFine(db, l, cost, fail) ==
  IF l \notin Loans THEN Outcome(db, "NotFound", 0)
  ELSE IF fail = "store" THEN Outcome(db, "DbError", 0)
  ELSE IF ExistingFine(db.fines, l, "lost") THEN Outcome(db, "DuplicateFine", 0)
    ELSE LET b == db.borrows[l]
           bookValue == BookValue(cost, b.price)
           fineAmount == bookValue * LostBookMultiplier
           fine == [user |-> b.user, borrow |-> l, amount |-> fineAmount,
                    type |-> "lost", status |-> "pending",
                    baseAmount |-> fineAmount, rateType |-> "fixed", rate |-> 0,
                    gracePeriod |-> 0, overdueDays |-> 0,
                    paidBy |-> "none", paidAt |-> 0 - 1]
           id == Len(db.fines) + 1
           db2 == [db EXCEPT
                     !.fines = Append(@, fine),
                     !.deductions = Append(@, 0),
                     !.borrows = [@ EXCEPT ![l].isLost = TRUE, ![l].status = "completed"],
                     !.fineBalance = IncBalance(@, b.user, fineAmount),
                     !.notices = @ \cup {<<"fine_notice", id>>}]
       IN Outcome(db2, NotifyOutcome(fail, "ok"), id)

(* The status checks of payFine (line 192) and waiveFine (line 231) *)
PayRejected(fine) == fine.status = "paid"
(* A waiver that refuses waived fines instead of paid ones *)
WaiveRejected_WaivedOnly(fine) == fine.status = "waived"

WaiveRejected(fine) == fine.status = "paid"

(* fineSchema.methods.markAsPaid / waiveFine *)
(* A payment that leaves payer and time unrecorded *)
markAsPaid_Unstamped(fine, paidBy, t) == [fine EXCEPT !.status = "paid"]

markAsPaid(fine, paidBy, t) == [fine EXCEPT !.status = "paid", !.paidAt = t, !.paidBy = paidBy]
(* A waiver that also clears the amount *)
markAsWaived_Zeroed(fine) == [fine EXCEPT !.status = "waived", !.amount = 0]

markAsWaived(fine) == [fine EXCEPT !.status = "waived"]

(* A settlement that leaves the balance as it was *)
Deduct_Forgotten(db, f) ==
  [db EXCEPT !.deductions = [@ EXCEPT ![f] = @ + 1]]

(* The balance update of payFine / waiveFine: $inc: { fineBalance: -fine.amount } *)
Deduct(db, f) ==
  [db EXCEPT !.fineBalance = IncBalance(@, db.fines[f].user, 0 - db.fines[f].amount),
             !.deductions = [@ EXCEPT ![f] = @ + 1]]

(* payFine(fineId, paidBy): lines 182-219 *)
payFine(db, f, paidBy, t, fail) ==
  IF f \notin FineIds(db.fines) THEN Outcome(db, "NotFound", 0)
  ELSE IF fail = "store" THEN Outcome(db, "DbError", 0)
  ELSE IF PayRejected(db.fines[f]) THEN Outcome(db, "AlreadyPaid", 0)
  ELSE LET db1 == [db EXCEPT !.fines = [@ EXCEPT ![f] = markAsPaid(@, paidBy, t)]]
           db2 == Deduct(db1, f)
           db3 == [db2 EXCEPT !.notices = @ \cup {<<"fine_paid", f>>}]
       IN Outcome(db3, NotifyOutcome(fail, "ok"), f)

(* waiveFine(fineId, waivedBy, reason): lines 222-258 *)
waiveFine(db, f, fail) ==
  IF f \notin FineIds(db.fines) THEN Outcome(db, "NotFound", 0)
  ELSE IF fail = "store" THEN Outcome(db, "DbError", 0)
  ELSE IF WaiveRejected(db.fines[f]) THEN Outcome(db, "CannotWaivePaid", 0)
  ELSE LET db1 == [db EXCEPT !.fines = [@ EXCEPT ![f] = markAsWaived(@)]]
           db2 == Deduct(db1, f)
           db3 == [db2 EXCEPT !.notices = @ \cup {<<"fine_waived", f>>}]
       IN Outcome(db3, NotifyOutcome(fail, "ok"), f)

----------------------------------------------------------------------------
(* Overdue Sweep *)

(* A batch of the loans whose status reads overdue *)
IsOverdueBorrow_ByStatus(b, t) == b.status = "overdue" /\ b.dueDate < t /\ b.type = "borrowed"

(* A batch that takes reservations as well *)
IsOverdueBorrow_AnyType(b, t) == b.status = "active" /\ b.dueDate < t

(* Borrow.find({ status: 'active', dueDate: { $lt: now }, type: 'borrowed' }),
   in id order *)
IsOverdueBorrow(b, t) == b.status = "active" /\ b.dueDate < t /\ b.type = "borrowed"

RECURSIVE OverdueFrom(_, _, _)
OverdueFrom(bs, t, l) ==
  IF l > NumLoans THEN << >>
  ELSE (IF IsOverdueBorrow(bs[l], t) THEN <<l>> ELSE << >>) \o OverdueFrom(bs, t, l + 1)

OverdueBorrows(bs, t) == OverdueFrom(bs, t, 1)

(* Outcomes of createOverdueFine that are a thrown error *)
Thrown(outcome) == outcome \notin {"ok", "null"}

(* One pass of the loop body, lines 355-364, on a sweep state
   sw = [db, processedCount, counted, attempted, aborted]: counted are the
   loans whose pass incremented processedCount, attempted those whose pass
   was entered, aborted whether an error left the loop *)
(* The loop body counting a loan whose fine it found *)
SweepLoan_CountsExisting(sw, l, t, cfg, fail) ==
  LET seen == [sw EXCEPT !.attempted = @ \cup {l}] IN
  IF fail = "store" THEN seen
  ELSE IF ExistingFine(sw.db.fines, l, "overdue")
    THEN [seen EXCEPT !.processedCount = @ + 1, !.counted = @ \cup {l}]
  ELSE LET r == createOverdueFine(sw.db, l, t, cfg, fail) IN
       IF Thrown(r.outcome)
         THEN [seen EXCEPT !.db = r.db]
         ELSE [seen EXCEPT !.db = r.db, !.processedCount = @ + 1,
                           !.counted = @ \cup {l}]

(* The loop body without its try/catch: an error leaves the loop *)
SweepLoan_Aborts(sw, l, t, cfg, fail) ==
  LET seen == [sw EXCEPT !.attempted = @ \cup {l}] IN
  IF fail = "store" THEN [seen EXCEPT !.aborted = TRUE]
  ELSE IF ExistingFine(sw.db.fines, l, "overdue") THEN seen
  ELSE LET r == createOverdueFine(sw.db, l, t, cfg, fail) IN
       IF Thrown(r.outcome)
         THEN [seen EXCEPT !.db = r.db, !.aborted = TRUE]
         ELSE [seen EXCEPT !.db = r.db, !.processedCount = @ + 1,
                           !.counted = @ \cup {l}]

SweepLoan(sw, l, t, cfg, fail) ==
  LET seen == [sw EXCEPT !.attempted = @ \cup {l}] IN
  IF fail = "store" THEN seen
  ELSE IF ExistingFine(sw.db.fines, l, "overdue") THEN seen
  ELSE LET r == createOverdueFine(sw.db, l, t, cfg, fail) IN
       IF Thrown(r.outcome)
         THEN [seen EXCEPT !.db = r.db]
         ELSE [seen EXCEPT !.db = r.db, !.processedCount = @ + 1,
                           !.counted = @ \cup {l}]

(* The loop: the state after one pass is a value before the next begins *)
RECURSIVE SweepFrom(_, _, _, _, _)
SweepFrom(sw, queue, t, cfg, failOf) ==
  IF queue = << >> \/ sw.aborted THEN sw
  ELSE CHOOSE out \in {SweepFrom(next, Tail(queue), t, cfg, failOf) :
                        next \in {SweepLoan(sw, Head(queue), t, cfg, failOf[Head(queue)])}} : TRUE

(* processOverdueFines(): lines 344-372 *)
processOverdueFines(db, t, cfg, failOf) ==
  LET batch == OverdueBorrows(db.borrows, t)
      sw == SweepFrom([db |-> db, processedCount |-> 0, counted |-> {},
                       attempted |-> {}, aborted |-> FALSE], batch, t, cfg, failOf)
  IN [db |-> sw.db,
      outcome |-> IF sw.aborted THEN "SweepError" ELSE "ok",
      processedCount |-> sw.processedCount,
      counted |-> sw.counted,
      totalOverdue |-> Len(batch),
      attempted |-> sw.attempted]

----------------------------------------------------------------------------
(* The lending desk, routes/borrows.js: reserve, issue and return.  Users are
   active, books are active and borrowable.  A desk is the part of the store
   these handlers read and write. *)

DeskFailModes == {"none", "save", "book", "user"}

DeskOutcome(d, outcome) == [desk |-> d, outcome |-> outcome]

(* bookSchema.methods.updateAvailableCopies *)
updateAvailableCopies(copies, b, available, change) ==
  [copies EXCEPT ![b] = Max(0, Min(TotalCopiesOf(b), available + change))]

(* The check on outstanding fines, line 228 *)
HasOutstandingFines(d, u) == d.fineBalance[u] > 0

NewBorrow(u, b, type, due) ==
  [user |-> u, book |-> b, type |-> type, status |-> "active", dueDate |-> due,
   isLost |-> FALSE, price |-> PriceOf(b)]

(* POST /api/borrows/reserve, lines 73-168 *)
reserve(d, u, b, fail) ==
  IF d.availableCopies[b] = 0 THEN DeskOutcome(d, "NotAvailable")
  ELSE IF \E l \in 1 .. Len(d.borrows) :
            /\ d.borrows[l].user = u /\ d.borrows[l].book = b
            /\ d.borrows[l].type = "reservation" /\ d.borrows[l].status = "active"
    THEN DeskOutcome(d, "AlreadyReserved")
  ELSE IF fail = "save" THEN DeskOutcome(d, "Failed")
  ELSE DeskOutcome([d EXCEPT !.borrows = Append(@, NewBorrow(u, b, "reservation", 0 - 1))],
                   "Reserved")

(* POST /api/borrows/issue, lines 173-287 *)
issue(d, u, b, due, fail) ==
  IF d.availableCopies[b] = 0 THEN DeskOutcome(d, "NotAvailable")
  ELSE IF d.currentBooksBorrowed[u] >= MaxBooksAllowed THEN DeskOutcome(d, "LimitReached")
  ELSE IF HasOutstandingFines(d, u) THEN DeskOutcome(d, "OutstandingFines")
  ELSE IF fail = "save" THEN DeskOutcome(d, "Failed")
  ELSE LET d1 == [d EXCEPT !.borrows = Append(@, NewBorrow(u, b, "borrowed", due))]
           d2 == [d1 EXCEPT !.availableCopies =
                     updateAvailableCopies(@, b, d.availableCopies[b], 0 - 1)]
           d3 == [d2 EXCEPT !.currentBooksBorrowed[u] = @ + 1]
       IN IF fail = "book" THEN DeskOutcome(d1, "Failed")
          ELSE IF fail = "user" THEN DeskOutcome(d2, "Failed")
          ELSE DeskOutcome(d3, "Issued")

(* POST /api/borrows/return, lines 292-369 *)
returnBook(d, l, fail) ==
  IF l \notin 1 .. Len(d.borrows) THEN DeskOutcome(d, "NotFound")
  ELSE IF d.borrows[l].status = "completed" THEN DeskOutcome(d, "AlreadyReturned")
  ELSE IF fail = "save" THEN DeskOutcome(d, "Failed")
  ELSE LET b == d.borrows[l].book
           u == d.borrows[l].user
           d1 == [d EXCEPT !.borrows[l].status = "completed"]
           d2 == [d1 EXCEPT !.availableCopies =
                     updateAvailableCopies(@, b, d.availableCopies[b], 1)]
           d3 == [d2 EXCEPT !.currentBooksBorrowed[u] = @ - 1]
       IN IF fail = "book" THEN DeskOutcome(d1, "Failed")
          ELSE IF fail = "user" THEN DeskOutcome(d2, "Failed")
          ELSE DeskOutcome(d3, "Returned")

----------------------------------------------------------------------------
(* State, and the handlers as actions *)

DB == [borrows |-> borrows, fines |-> fines, fineBalance |-> fineBalance,
       charges |-> charges, deductions |-> deductions, notices |-> notices]

Commit(db) ==
  /\ borrows' = db.borrows
  /\ fines' = db.fines
  /\ fineBalance' = db.fineBalance
  /\ charges' = db.charges
  /\ deductions' = db.deductions
  /\ notices' = db.notices

RateTypes == {"per_day", "per_hour"}
CostChoices == {<< >>, <<0>>, <<300 * Mills>>}

(* A caller of the service: where it stands in createOverdueFine or in
   processOverdueFines, and the locals it holds *)
IdleProc ==
  [pc |-> "idle", inSweep |-> FALSE, queue |-> << >>, count |-> 0, loan |-> 0,
   amount |-> 0, overdueDays |-> 0, rateType |-> "", rate |-> 0, grace |-> 0,
   calcGrace |-> 0, fineId |-> 0]

(* The policies an administrator has set before the run *)
InitConfigs ==
  {DefaultConfig,
   [DefaultConfig EXCEPT !.gracePeriod = 1, !.rateType = "per_hour"],
   [DefaultConfig EXCEPT !.maxFine = 75 * Mills]}

Init ==
  /\ now = 0
  /\ config \in InitConfigs
  /\ borrows = InitBorrows
  /\ fines = << >>
  /\ fineBalance = [u \in Users |-> 0]
  /\ charges = [l \in Loans |-> 0]
  /\ deductions = << >>
  /\ notices = {}
  /\ calcResult = [borrow |-> 0, result |-> NoCalc]
  /\ procs = [p \in Procs |-> IdleProc]
  /\ InitDesk

(* A day passes *)
Tick ==
  /\ now + TicksPerDay <= MaxNow
  /\ now' = now + TicksPerDay
  /\ UNCHANGED <<deskVars, config, borrows, fines, fineBalance, charges, deductions, notices, calcResult, procs>>

Desk == [borrows |-> borrows, availableCopies |-> availableCopies,
         currentBooksBorrowed |-> currentBooksBorrowed, fineBalance |-> fineBalance]

CommitDesk(d) ==
  /\ borrows' = d.borrows
  /\ availableCopies' = d.availableCopies
  /\ currentBooksBorrowed' = d.currentBooksBorrowed

(* POST /api/borrows/return: the loan is marked completed, the copy and the
   member's counter are given back; no fine is created or touched *)
ReturnBook ==
  \E l \in Loans :
    /\ borrows[l].status # "completed"
    /\ CommitDesk(returnBook(Desk, l, "none").desk)
    /\ UNCHANGED <<requests, notifications, now, config, fines, fineBalance, charges,
                   deductions, notices, calcResult, procs>>

CreateOverdueFine ==
  \E l \in LoanIds, fail \in FailModes :
    LET r == createOverdueFine(DB, l, now, config, fail) IN
    /\ Len(r.db.fines) <= MaxFines
    /\ Commit(r.db)
    /\ UNCHANGED <<deskVars, now, config, calcResult, procs>>

CreateLostBookFine ==
  \E l \in LoanIds, cost \in CostChoices, fail \in FailModes :
    LET r == createLostBookFine(DB, l, cost, fail) IN
    /\ Len(r.db.fines) <= MaxFines
    /\ Commit(r.db)
    /\ UNCHANGED <<deskVars, now, config, calcResult, procs>>

(* A call that would deduct is taken only while the fine has been deducted
   fewer than MaxDeductions times *)
WithinDeductions(f) == f \in FineIds(fines) => deductions[f] < MaxDeductions

PayFine ==
  \E f \in 0 .. Len(fines), fail \in FailModes :
    LET r == payFine(DB, f, "staff", now, fail) IN
    /\ WithinDeductions(f) \/ r.db = DB
    /\ Commit(r.db)
    /\ UNCHANGED <<deskVars, now, config, calcResult, procs>>

WaiveFine ==
  \E f \in 0 .. Len(fines), fail \in FailModes :
    LET r == waiveFine(DB, f, fail) IN
    /\ WithinDeductions(f) \/ r.db = DB
    /\ Commit(r.db)
    /\ UNCHANGED <<deskVars, now, config, calcResult, procs>>

ProcessOverdueFines ==
  \E failOf \in [Loans -> FailModes] :
    LET r == processOverdueFines(DB, now, config, failOf) IN
    /\ Len(r.db.fines) <= MaxFines
    /\ Commit(r.db)
    /\ UNCHANGED <<deskVars, now, config, calcResult, procs>>

Next ==
  \/ Tick
  \/ ReturnBook
  \/ CreateOverdueFine
  \/ CreateLostBookFine
  \/ PayFine
  \/ WaiveFine
  \/ ProcessOverdueFines

Spec == Init /\ [][Next]_vars

----------------------------------------------------------------------------
(* Concurrent callers: createOverdueFine and processOverdueFines one await at
   a time *)

(* createOverdueFine returns (a fine or null) to its caller: to the sweep's
   loop, line 360, or out of the service *)
ReturnTo(c) ==
  IF c.inSweep
    THEN [IdleProc EXCEPT !.pc = "sweepCheck", !.inSweep = TRUE,
                          !.queue = Tail(c.queue), !.count = c.count + 1]
    ELSE IdleProc

(* createOverdueFine throws: into the sweep's catch, line 362, or out of the
   service *)
ThrowTo(c) ==
  IF c.inSweep
    THEN [IdleProc EXCEPT !.pc = "sweepCheck", !.inSweep = TRUE,
                          !.queue = Tail(c.queue), !.count = c.count]
    ELSE IdleProc

(* Line 75: a caller enters createOverdueFine and loads the borrow *)
CallCreateOverdueFine(p) ==
  \E l \in Loans :
    /\ procs[p].pc = "idle"
    /\ procs' = [procs EXCEPT ![p] = [IdleProc EXCEPT !.pc = "findOne", !.loan = l]]
    /\ UNCHANGED <<deskVars, now, config, borrows, fines, fineBalance, charges, deductions,
                   notices, calcResult>>

(* Line 346: the timer enters processOverdueFines and finds the batch *)
CallProcessOverdueFines(p) ==
  /\ procs[p].pc = "idle"
  /\ procs' = [procs EXCEPT ![p] = [IdleProc EXCEPT !.pc = "sweepCheck", !.inSweep = TRUE,
                                       !.queue = OverdueBorrows(borrows, now)]]
  /\ UNCHANGED <<deskVars, now, config, borrows, fines, fineBalance, charges, deductions,
                 notices, calcResult>>

(* Lines 354-359 and 367: the loop's own Fine.findOne, or the return *)
SweepCheck(p) ==
  LET c == procs[p] IN
  /\ c.pc = "sweepCheck"
  /\ procs' = [procs EXCEPT ![p] =
       IF c.queue = << >> THEN IdleProc
       ELSE IF ExistingFine(fines, Head(c.queue), "overdue")
         THEN [c EXCEPT !.queue = Tail(c.queue)]
         ELSE [c EXCEPT !.pc = "findOne", !.loan = Head(c.queue)]]
  /\ UNCHANGED <<deskVars, now, config, borrows, fines, fineBalance, charges, deductions,
                 notices, calcResult>>

(* Lines 84-87: the duplicate check *)
FindExisting(p) ==
  LET c == procs[p] IN
  /\ c.pc = "findOne"
  /\ procs' = [procs EXCEPT ![p] =
       IF ExistingFine(fines, c.loan, "overdue") THEN ThrowTo(c)
       ELSE [c EXCEPT !.pc = "calculate"]]
  /\ UNCHANGED <<deskVars, now, config, borrows, fines, fineBalance, charges, deductions,
                 notices, calcResult>>

(* A createOverdueFine that increments the balance as soon as the amount is
   known, before the fine record is written *)
Calculate_ChargesFirst(p) ==
  LET c == procs[p]
      r == calculateOverdueFine(borrows[c.loan], now, config)
      due == r.err = "" /\ ~NoFineDue(r)
  IN
  /\ c.pc = "calculate"
  /\ procs' = [procs EXCEPT ![p] =
       IF r.err # "" THEN ThrowTo(c)
       ELSE IF NoFineDue(r) THEN ReturnTo(c)
       ELSE [c EXCEPT !.pc = "readGrace", !.amount = r.fineAmount,
                      !.calcGrace = config.gracePeriod,
                      !.overdueDays = r.overdueDays, !.rateType = r.rateType,
                      !.rate = IF r.rateType = "per_hour" THEN r.hourlyRate
                                                          ELSE r.dailyRate]]
  /\ fineBalance' = IF due THEN IncBalance(fineBalance, borrows[c.loan].user, r.fineAmount)
                            ELSE fineBalance
  /\ charges' = IF due THEN [charges EXCEPT ![c.loan] = @ + 1] ELSE charges
  /\ UNCHANGED <<deskVars, now, config, borrows, fines, deductions, notices, calcResult>>

(* Lines 89-93: calculateOverdueFine on the policy and the time of this
   moment *)
Calculate(p) ==
  LET c == procs[p]
      r == calculateOverdueFine(borrows[c.loan], now, config)
  IN
  /\ c.pc = "calculate"
  /\ procs' = [procs EXCEPT ![p] =
       IF r.err # "" THEN ThrowTo(c)
       ELSE IF NoFineDue(r) THEN ReturnTo(c)
       ELSE [c EXCEPT !.pc = "readGrace", !.amount = r.fineAmount,
                      !.calcGrace = config.gracePeriod,
                      !.overdueDays = r.overdueDays, !.rateType = r.rateType,
                      !.rate = IF r.rateType = "per_hour" THEN r.hourlyRate
                                                          ELSE r.dailyRate]]
  /\ UNCHANGED <<deskVars, now, config, borrows, fines, fineBalance, charges, deductions,
                 notices, calcResult>>

(* Line 105: the grace period is read again for the record *)
ReadGrace(p) ==
  LET c == procs[p] IN
  /\ c.pc = "readGrace"
  /\ procs' = [procs EXCEPT ![p] = [c EXCEPT !.pc = "create", !.grace = config.gracePeriod]]
  /\ UNCHANGED <<deskVars, now, config, borrows, fines, fineBalance, charges, deductions,
                 notices, calcResult>>

(* Lines 96-107: Fine.create *)
CreateFine(p) ==
  LET c == procs[p]
      fine == [user |-> borrows[c.loan].user, borrow |-> c.loan, amount |-> c.amount,
               type |-> "overdue", status |-> "pending", baseAmount |-> c.amount,
               rateType |-> c.rateType, rate |-> c.rate, gracePeriod |-> c.grace,
               overdueDays |-> c.overdueDays, paidBy |-> "none", paidAt |-> 0 - 1]
  IN
  /\ c.pc = "create"
  /\ Len(fines) < MaxFines
  /\ fines' = Append(fines, fine)
  /\ deductions' = Append(deductions, 0)
  /\ procs' = [procs EXCEPT ![p] = [c EXCEPT !.pc = "incBalance", !.fineId = Len(fines) + 1]]
  /\ UNCHANGED <<deskVars, now, config, borrows, fineBalance, charges, notices, calcResult>>

(* Lines 110-112: the balance increment *)
IncrementBalance(p) ==
  LET c == procs[p] IN
  /\ c.pc = "incBalance"
  /\ fineBalance' = IncBalance(fineBalance, borrows[c.loan].user, c.amount)
  /\ charges' = [charges EXCEPT ![c.loan] = @ + 1]
  /\ procs' = [procs EXCEPT ![p] = [c EXCEPT !.pc = "notify"]]
  /\ UNCHANGED <<deskVars, now, config, borrows, fines, deductions, notices, calcResult>>

(* Lines 115-117: sendFineNotice returns or throws *)
SendFineNotice(p) ==
  LET c == procs[p] IN
  /\ c.pc = "notify"
  /\ notices' = notices \cup {<<"fine_notice", c.fineId>>}
  /\ \E fail \in {"none", "notify"} :
       procs' = [procs EXCEPT ![p] = IF fail = "notify" THEN ThrowTo(c) ELSE ReturnTo(c)]
  /\ UNCHANGED <<deskVars, now, config, borrows, fines, fineBalance, charges, deductions, calcResult>>

NextConc ==
  \/ Tick
  \/ \E p \in Procs : CallCreateOverdueFine(p)
  \/ \E p \in Procs : CallProcessOverdueFines(p)
  \/ \E p \in Procs : SweepCheck(p)
  \/ \E p \in Procs : FindExisting(p)
  \/ \E p \in Procs : Calculate(p)
  \/ \E p \in Procs : ReadGrace(p)
  \/ \E p \in Procs : CreateFine(p)
  \/ \E p \in Procs : IncrementBalance(p)
  \/ \E p \in Procs : SendFineNotice(p)

SpecConc == Init /\ [][NextConc]_vars

(* C1: however createOverdueFine and processOverdueFines calls on one overdue
   loan interleave, the loan has at most one fine of type overdue and the
   user's fineBalance is incremented for it at most once. *)
C1_NoDoubleCharge ==
  \A l \in Loans : OverdueCount(fines, l) <= 1 /\ charges[l] <= 1

----------------------------------------------------------------------------
(* The sweep on its timer: the hourly setInterval of server.js is the only
   caller that creates fines, books are returned, fines are paid and waived,
   and a sweep during which the store answers keeps coming *)

(* A run of processOverdueFines in which every store operation answers; the
   notification may still throw *)
SweepWithStoreUp ==
  \E failOf \in [Loans -> StoreUp] :
    \E r \in {processOverdueFines(DB, now, config, failOf)} :
    /\ Len(r.db.fines) <= MaxFines
    /\ Commit(r.db)
    /\ UNCHANGED <<deskVars, now, config, calcResult, procs>>

NextLive ==
  \/ Tick
  \/ ReturnBook
  \/ PayFine
  \/ WaiveFine
  \/ ProcessOverdueFines

SpecLive == Init /\ [][NextLive]_vars /\ WF_vars(SweepWithStoreUp)

(* Loan l is borrowed, active, and more than gracePeriod whole days past its
   due date *)
OpenPastGrace(l) ==
  /\ borrows[l].type = "borrowed"
  /\ borrows[l].status = "active"
  /\ now - borrows[l].dueDate >= (config.gracePeriod + 1) * TicksPerDay

(* C19: every loan that is borrowed, active and overdue beyond the grace
   period eventually has an overdue fine, unless it stops being such a loan,
   as long as sweeps keep running. *)
C19_EventuallyFined ==
  \A l \in Loans :
    OpenPastGrace(l) ~> (OverdueCount(fines, l) >= 1 \/ ~OpenPastGrace(l))

(* A loan still open and past grace carries the one overdue fine a sweep
   created for it *)
C19_Witness ==
  \E l \in Loans :
    /\ OpenPastGrace(l)
    /\ OverdueCount(fines, l) = 1
    /\ charges[l] = 1

----------------------------------------------------------------------------
(* The calculator alone: the time, the policy and the loans are drawn from
   wide sets, and the one action is a call of calculateOverdueFine *)

CalcConfigs ==
  [gracePeriod : {0, 1, DefaultGracePeriod},
   dailyRate   : {DefaultDailyRate * Mills, 125},
   hourlyRate  : {DefaultHourlyRate * Mills, 333},
   rateType    : RateTypes,
   maxFine     : {75 * Mills, 100 * Mills + 6, DefaultMaxFine * Mills}]

CalcBorrows == {InitBorrows, [InitBorrows EXCEPT ![1].status = "completed"]}

InitCalc ==
  /\ now \in 0 .. MaxNow
  /\ config \in CalcConfigs
  /\ borrows \in CalcBorrows
  /\ fines = << >>
  /\ fineBalance = [u \in Users |-> 0]
  /\ charges = [l \in Loans |-> 0]
  /\ deductions = << >>
  /\ notices = {}
  /\ calcResult = [borrow |-> 0, result |-> NoCalc]
  /\ procs = [p \in Procs |-> IdleProc]
  /\ InitDesk

CalculateOverdueFine ==
  \E l \in Loans :
    /\ calcResult' = [borrow |-> l, result |-> calculateOverdueFine(borrows[l], now, config)]
    /\ UNCHANGED <<deskVars, now, config, borrows, fines, fineBalance, charges, deductions,
                   notices, procs>>

NextCalc == CalculateOverdueFine

SpecCalc == InitCalc /\ [][NextCalc]_vars

(* C10: for every loan and every policy, when the whole-day overdue count is
   at most the grace period (less than gracePeriod + 1 days have passed since
   the due date), calculateOverdueFine returns fineAmount 0 and
   gracePeriodUsed true. *)
C10_GraceFloor ==
  \A l \in Loans :
    (/\ calcResult.borrow = l
     /\ calcResult.result.err = ""
     /\ now - borrows[l].dueDate < (config.gracePeriod + 1) * TicksPerDay)
      => (calcResult.result.fineAmount = 0 /\ calcResult.result.gracePeriodUsed = TRUE)

(* An hourly policy, a loan whose overdue hours already exceed the grace
   period in hours while its whole days do not, and the calculator has
   answered no fine *)
C10_Witness ==
  /\ calcResult.borrow = 1
  /\ calcResult.result.err = ""
  /\ config.rateType = "per_hour"
  /\ config.gracePeriod = 1
  /\ now - borrows[1].dueDate = 2 * TicksPerDay - 1
  /\ calcResult.result.fineAmount = 0
  /\ calcResult.result.gracePeriodUsed = TRUE

(* The amount before the cap that the call recorded in calcResult computed *)
RawOfCall ==
  LET b == borrows[calcResult.borrow] IN
  RawAmount(DiffDays(now, b.dueDate), DiffHours(now, b.dueDate), config)

(* calculateOverdueFine has returned a computed amount (past the grace check) *)
Computed ==
  /\ calcResult.borrow \in Loans
  /\ calcResult.result.err = ""
  /\ ~calcResult.result.gracePeriodUsed

(* C11 as stated: when the raw amount exceeds maxFine the returned fineAmount
   equals exactly maxFine, and in all cases fineAmount lies in [0, maxFine]. *)
C11_CapExact ==
  /\ (Computed /\ RawOfCall > config.maxFine)
       => calcResult.result.fineAmount = config.maxFine
  /\ (calcResult.borrow \in Loans /\ calcResult.result.err = "")
       => (0 <= calcResult.result.fineAmount
           /\ calcResult.result.fineAmount <= config.maxFine)

(* C11 amended: when the raw amount exceeds maxFine the returned fineAmount
   equals maxFine rounded to two decimals (maxFine itself when it is a whole
   number of cents), and in all cases fineAmount lies between 0 and maxFine
   rounded to two decimals. *)
C11_CapRounded ==
  /\ (Computed /\ RawOfCall > config.maxFine)
       => /\ calcResult.result.fineAmount = Round2(config.maxFine)
          /\ (config.maxFine % 10 = 0 => calcResult.result.fineAmount = config.maxFine)
  /\ (calcResult.borrow \in Loans /\ calcResult.result.err = "")
       => (0 <= calcResult.result.fineAmount
           /\ calcResult.result.fineAmount <= Round2(config.maxFine))

(* A raw amount above a cap of 100.006 has been computed and 100.01 returned *)
C11_Witness ==
  /\ Computed
  /\ config.maxFine = 100 * Mills + 6
  /\ RawOfCall > config.maxFine
  /\ calcResult.result.fineAmount = 100 * Mills + 10

(* C12: under one policy, once a loan is overdue beyond grace, evaluating it
   at any later time never yields a smaller fineAmount than the evaluation
   just made. *)
C12_MonotonicAccrual ==
  Computed =>
    \A t \in now .. MaxNow :
      LET later == calculateOverdueFine(borrows[calcResult.borrow], t, config)
      IN /\ later.err = ""
         /\ ~later.gracePeriodUsed
         /\ later.fineAmount >= calcResult.result.fineAmount

(* An amount below the cap has been computed, and a later evaluation of the
   same loan yields more *)
C12_Witness ==
  /\ Computed
  /\ calcResult.result.fineAmount > 0
  /\ calcResult.result.fineAmount < config.maxFine
  /\ calculateOverdueFine(borrows[calcResult.borrow], MaxNow, config).fineAmount
       > calcResult.result.fineAmount

(* The scenario of C13: a call has evaluated a loan four calendar days after
   its due date (due 2024-01-01, evaluated 2024-01-05) under grace 2, per_day,
   daily rate 50 and a cap of at least 150 *)
FourDaysAfterDue ==
  /\ calcResult.borrow \in Loans
  /\ calcResult.result.err = ""
  /\ config.gracePeriod = 2
  /\ config.rateType = "per_day"
  /\ config.dailyRate = 50 * Mills
  /\ config.maxFine >= 150 * Mills
  /\ now - borrows[calcResult.borrow].dueDate >= 4 * TicksPerDay
  /\ now - borrows[calcResult.borrow].dueDate < 5 * TicksPerDay

(* The same evaluation at time t with maxFine = 100 *)
CappedAt100(t) ==
  calculateOverdueFine(borrows[calcResult.borrow], t, [config EXCEPT !.maxFine = 100 * Mills])

(* C13 as stated: the evaluation on 2024-01-05 yields fineAmount = 150, and
   with maxFine = 100 it yields 100. *)
C13_Scenario150 ==
  FourDaysAfterDue =>
    /\ calcResult.result.fineAmount = 150 * Mills
    /\ CappedAt100(now).fineAmount = 100 * Mills

(* C13 amended: the evaluation on 2024-01-05 (4 whole days overdue, 2 beyond
   grace) yields fineAmount = 100, also with maxFine = 100; fineAmount = 150
   is what the evaluation one day later yields, and maxFine = 100 caps that
   one to 100. *)
C13_Scenario100 ==
  FourDaysAfterDue =>
    /\ calcResult.result.fineAmount = 100 * Mills
    /\ calcResult.result.overdueDays = 4
    /\ CappedAt100(now).fineAmount = 100 * Mills
    /\ calculateOverdueFine(borrows[calcResult.borrow], now + TicksPerDay, config).fineAmount
         = 150 * Mills
    /\ CappedAt100(now + TicksPerDay).fineAmount = 100 * Mills

(* The scenario's evaluation has been made and has answered 100 *)
C13_Witness ==
  /\ FourDaysAfterDue
  /\ config = DefaultConfig
  /\ calcResult.result.fineAmount = 100 * Mills

(* Whole hours and whole days between the due date of the loan of the call
   in calcResult and now, each counted from the ticks *)
HoursSinceDue == (now - borrows[calcResult.borrow].dueDate) \div TicksPerHour
DaysSinceDue == (now - borrows[calcResult.borrow].dueDate) \div TicksPerDay

(* The hourly amount of the claim, before any rounding *)
PerHourAmount ==
  Min(config.maxFine, Max(0, HoursSinceDue - config.gracePeriod * 24) * config.hourlyRate)

(* A per_hour call on a loan that was due has returned *)
PerHourCall ==
  /\ calcResult.borrow \in Loans
  /\ calcResult.result.err = ""
  /\ config.rateType = "per_hour"
  /\ now >= borrows[calcResult.borrow].dueDate

(* What C14 says besides the amount: nothing is charged until the whole days
   exceed the grace period, whatever the hours, and the first amount charged
   is at least 24 hourly rates before the cap *)
PerHourFloor ==
  PerHourCall =>
    /\ DaysSinceDue <= config.gracePeriod => calcResult.result.fineAmount = 0
    /\ DaysSinceDue > config.gracePeriod =>
         (/\ ~calcResult.result.gracePeriodUsed
          /\ RawOfCall >= 24 * config.hourlyRate)

(* C14 as stated: under per_hour, with overdueDays > gracePeriod, the call
   returns min(maxFine, max(0, overdueHours - gracePeriod*24) * hourlyRate),
   the hours counted on their own; nothing is charged before overdueDays
   reaches gracePeriod + 1, and the first amount is at least 24 hourly rates
   before the cap. *)
C14_PerHourExact ==
  /\ (PerHourCall /\ DaysSinceDue > config.gracePeriod)
       => calcResult.result.fineAmount = PerHourAmount
  /\ PerHourFloor

(* C14 amended: the amount returned is min(maxFine, max(0, overdueHours -
   gracePeriod*24) * hourlyRate) rounded to two decimals; the rest as stated. *)
C14_PerHourRounded ==
  /\ (PerHourCall /\ DaysSinceDue > config.gracePeriod)
       => calcResult.result.fineAmount = Round2(PerHourAmount)
  /\ PerHourFloor

(* A per_hour call past grace, part of a day into the overdue period, has
   returned an amount below the cap that the rounding changed *)
C14_Witness ==
  /\ PerHourCall
  /\ DaysSinceDue > config.gracePeriod
  /\ HoursSinceDue % 24 # 0
  /\ calcResult.result.fineAmount > 0
  /\ calcResult.result.fineAmount < config.maxFine
  /\ calcResult.result.fineAmount # PerHourAmount

----------------------------------------------------------------------------
(* Properties of the ledger and the sweep, checked under Spec.  A property of
   one call is stated of the handler applied in every reachable state to
   every input; a property of two calls in sequence is stated of the second
   handler applied to what the first one left. *)


(* C2 as stated, of the loans that are active and past their due date:
   createOverdueFine called twice in sequence for the loan: the second call
   fails with DuplicateFine, exactly one fine record exists for the loan
   afterwards, and the second call changes nothing. *)
C2_SecondCallAlwaysDuplicate ==
  \A l \in Loans :
    LET r1 == createOverdueFine(DB, l, now, config, "none")
        r2 == createOverdueFine(r1.db, l, now, config, "none")
    IN IsOverdueBorrow(borrows[l], now) =>
         /\ r2.outcome = "DuplicateFine"
         /\ Cardinality(AllFinesOfLoan(r2.db.fines, l)) = 1
         /\ r2.db = r1.db

(* C2 amended: when the first of two createOverdueFine calls in sequence for
   a loan created a fine, the second call fails with DuplicateFine (its own
   store lookups answering), exactly one fine record exists for the loan
   afterwards, and the second call changes neither the fine records nor any
   fineBalance. *)
C2_SecondCallDuplicate ==
  \A l \in Loans, f1 \in StoreUp, f2 \in FailModes :
    LET r1 == createOverdueFine(DB, l, now, config, f1)
        r2 == createOverdueFine(r1.db, l, now, config, f2)
    IN r1.fine # 0 =>
         /\ f2 # "store" => r2.outcome = "DuplicateFine"
         /\ r2.fine = 0
         /\ Cardinality(AllFinesOfLoan(r2.db.fines, l)) = 1
         /\ r2.db.fines = r1.db.fines
         /\ r2.db.fineBalance = r1.db.fineBalance
         /\ r2.db = r1.db

(* A first call has created the only fine of a loan, and a second call on
   that loan is answered DuplicateFine *)
C2_Witness ==
  \E l \in Loans :
    /\ OverdueCount(fines, l) = 1
    /\ charges[l] = 1
    /\ createOverdueFine(DB, l, now, config, "none").outcome = "DuplicateFine"

(* The loans of the batch for which a sweep at time t computes a fine *)
Chargeable(db, t, cfg) ==
  {l \in Loans : /\ IsOverdueBorrow(db.borrows[l], t)
                 /\ calculateOverdueFine(db.borrows[l], t, cfg).fineAmount > 0}

NoFailure == [l \in Loans |-> "none"]

(* C3 as stated: two sweeps in succession leave exactly one overdue fine for
   every loan of the batch, and the second does not count that loan. *)
C3_TwoSweepsOneFineEach ==
  LET s1 == processOverdueFines(DB, now, config, NoFailure)
      s2 == processOverdueFines(s1.db, now, config, NoFailure)
  IN \A l \in Loans :
       IsOverdueBorrow(borrows[l], now) =>
         /\ OverdueCount(s2.db.fines, l) = 1
         /\ l \notin s2.counted

(* C3 amended: two sweeps in succession leave exactly one overdue fine for
   every loan of the batch that is overdue beyond the grace period with a
   positive computed amount (its first pass meeting no store error), and the
   second sweep's processedCount does not count that loan. *)
C3_TwoSweepsIdempotent ==
  \A fo1 \in [Loans -> FailModes], fo2 \in [Loans -> FailModes] :
    LET s1 == processOverdueFines(DB, now, config, fo1)
        s2 == processOverdueFines(s1.db, now, config, fo2)
    IN /\ s2.processedCount = Cardinality(s2.counted)
       /\ \A l \in Chargeable(DB, now, config) :
            fo1[l] # "store" =>
              /\ OverdueCount(s2.db.fines, l) = 1
              /\ l \notin s2.counted

(* A loan of the batch has its one overdue fine, and the next sweep enters its
   pass, does not count it and writes nothing *)
C3_Witness ==
  \E l \in Loans :
    /\ OverdueCount(fines, l) = 1
    /\ IsOverdueBorrow(borrows[l], now)
    /\ LET s2 == processOverdueFines(DB, now, config, NoFailure)
       IN l \in s2.attempted /\ l \notin s2.counted /\ s2.db.fines = fines

RECURSIVE PendingFrom(_, _, _)
PendingFrom(fs, u, i) ==
  IF i > Len(fs) THEN 0
  ELSE (IF fs[i].user = u /\ fs[i].status = "pending" THEN fs[i].amount ELSE 0)
       + PendingFrom(fs, u, i + 1)

(* The sum of the amounts of the pending fines of user u *)
PendingSum(fs, u) == PendingFrom(fs, u, 1)

(* C4: between calls, each user's fineBalance equals the sum of the amounts
   of that user's pending fines. *)
C4_BalanceIsPendingSum ==
  \A u \in Users : fineBalance[u] = PendingSum(fines, u)

(* C5: for a user with no other fines, a successful createOverdueFine followed
   by payFine or waiveFine on the created fine returns the user's fineBalance
   to the value it had before the fine was created. *)
C5_BalanceConserved ==
  \A l \in Loans, f2 \in StoreUp :
    LET u == borrows[l].user
        r1 == createOverdueFine(DB, l, now, config, "none")
        p == payFine(r1.db, r1.fine, "staff", now, f2)
        w == waiveFine(r1.db, r1.fine, f2)
    IN (r1.outcome = "ok" /\ FinesOfUser(fines, u) = {}) =>
         /\ r1.db.fineBalance[u] = fineBalance[u] + r1.db.fines[r1.fine].amount
         /\ p.db.fineBalance[u] = fineBalance[u]
         /\ w.db.fineBalance[u] = fineBalance[u]
         /\ p.db.fines[r1.fine].status = "paid"
         /\ w.db.fines[r1.fine].status = "waived"

(* A user's only fine, an overdue fine, has been created and then paid or
   waived once, and the balance is back where it was *)
C5_Witness ==
  \E u \in Users :
    /\ Cardinality(FinesOfUser(fines, u)) = 1
    /\ \A f \in FinesOfUser(fines, u) :
         /\ fines[f].type = "overdue"
         /\ fines[f].status \in {"paid", "waived"}
         /\ fines[f].amount > 0
         /\ deductions[f] = 1
    /\ fineBalance[u] = 0

(* C6: once a fine is paid nothing changes it: no step changes the record, and
   a later payFine fails with AlreadyPaid, a later waiveFine with
   CannotWaivePaid, each leaving the fine records and the balances as they
   were. *)
C6_PaidRejects ==
  \A f \in FineIds(fines), fail \in StoreUp :
    fines[f].status = "paid" =>
      LET p == payFine(DB, f, "staff", now, fail)
          w == waiveFine(DB, f, fail)
      IN /\ p.outcome = "AlreadyPaid"
         /\ w.outcome = "CannotWaivePaid"
         /\ p.db = DB
         /\ w.db = DB

C6_PaidStays ==
  \A f \in FineIds(fines) :
    fines[f].status = "paid" =>
      (f \in FineIds(fines') /\ fines'[f] = fines[f])

C6_PaidIsTerminal == [] C6_PaidRejects /\ [][C6_PaidStays]_vars

(* A fine has been paid and more calls have been made since *)
C6_Witness ==
  \E f \in FineIds(fines) :
    /\ fines[f].status = "paid"
    /\ fines[f].paidAt < now
    /\ Len(fines) > f
    /\ payFine(DB, f, "staff", now, "none").outcome = "AlreadyPaid"

(* C7: a fine's status only moves from pending to paid or to waived: no step
   changes the status of a paid or waived fine, and no step takes the amount
   of a settled fine off the balance again. *)
C7_SettledStays ==
  \A f \in FineIds(fines) :
    fines[f].status \in {"paid", "waived"} =>
      /\ fines'[f].status = fines[f].status
      /\ deductions'[f] = deductions[f]

C7_StatusOnlyForward == [][C7_SettledStays]_vars

(* C8: when the notification send throws, createOverdueFine,
   createLostBookFine, payFine and waiveFine still return the fine, with the
   fine record and the balance change kept. *)
C8_NotifyFailureSwallowed ==
  /\ \A l \in Loans :
       LET ok == createOverdueFine(DB, l, now, config, "none")
           r == createOverdueFine(DB, l, now, config, "notify")
       IN r.db = ok.db /\ r.outcome = ok.outcome /\ r.fine = ok.fine
  /\ \A l \in Loans, cost \in CostChoices :
       LET ok == createLostBookFine(DB, l, cost, "none")
           r == createLostBookFine(DB, l, cost, "notify")
       IN r.db = ok.db /\ r.outcome = ok.outcome /\ r.fine = ok.fine
  /\ \A f \in FineIds(fines) :
       LET ok == payFine(DB, f, "staff", now, "none")
           r == payFine(DB, f, "staff", now, "notify")
       IN r.db = ok.db /\ r.outcome = ok.outcome /\ r.fine = ok.fine
  /\ \A f \in FineIds(fines) :
       LET ok == waiveFine(DB, f, "none")
           r == waiveFine(DB, f, "notify")
       IN r.db = ok.db /\ r.outcome = ok.outcome /\ r.fine = ok.fine

(* C9: a failure while one loan of the batch is processed does not abort the
   sweep: the sweep returns its counts, every loan of the batch has its pass,
   and every loan whose own pass meets no failure is fined as it would be
   alone. *)
C9_SweepSurvivesFailures ==
  \A failOf \in [Loans -> FailModes] :
    LET batch == OverdueBorrows(borrows, now)
        inBatch == {batch[i] : i \in 1 .. Len(batch)}
        s == processOverdueFines(DB, now, config, failOf)
    IN /\ s.outcome = "ok"
       /\ s.totalOverdue = Len(batch)
       /\ s.attempted = inBatch
       /\ s.processedCount = Cardinality(s.counted)
       /\ \A l \in inBatch :
            failOf[l] # "store" =>
              (OverdueCount(s.db.fines, l) >= 1
                 <=> (ExistingFine(fines, l, "overdue") \/ l \in Chargeable(DB, now, config)))
       /\ \A l \in inBatch :
            (failOf[l] = "none" /\ ~ExistingFine(fines, l, "overdue")) => l \in s.counted

(* Two loans of one batch are both due a fine; the pass of the first fails and
   the second is fined all the same *)
C9_Witness ==
  /\ Cardinality(Chargeable(DB, now, config)) >= 2
  /\ fines = << >>
  /\ LET s == processOverdueFines(DB, now, config, [l \in Loans |-> IF l = 1 THEN "store" ELSE "none"])
     IN /\ s.outcome = "ok"
        /\ OverdueCount(s.db.fines, 1) = 0
        /\ OverdueCount(s.db.fines, 2) = 1
        /\ s.processedCount = 1

(* C15: createOverdueFine on a loan whose status is completed fails with the
   already-completed error, creates no fine and changes no balance. *)
C15_CompletedRefused ==
  \A l \in Loans, fail \in StoreUp :
    borrows[l].status = "completed" =>
      LET r == createOverdueFine(DB, l, now, config, fail)
      IN /\ r.outcome = "InvalidOrCompleted"
         /\ r.fine = 0
         /\ r.db = DB

(* C16: when the calculator yields fineAmount 0, createOverdueFine returns its
   no-fine result without an error and changes nothing: no fine record, no
   balance change, no notification requested. *)
C16_NoFineNoEffect ==
  \A l \in Loans, fail \in StoreUp :
    LET calc == calculateOverdueFine(borrows[l], now, config)
        r == createOverdueFine(DB, l, now, config, fail)
    IN (~ExistingFine(fines, l, "overdue") /\ calc.err = "" /\ calc.fineAmount = 0) =>
         /\ r.outcome = "null"
         /\ r.fine = 0
         /\ r.db.fines = fines
         /\ r.db.fineBalance = fineBalance
         /\ r.db.notices = notices
         /\ r.db = DB

(* A loan past its due date and within grace, other fines on the books, and
   createOverdueFine answers no fine *)
C16_Witness ==
  \E l \in Loans :
    /\ IsOverdueBorrow(borrows[l], now)
    /\ calculateOverdueFine(borrows[l], now, config).gracePeriodUsed
    /\ fines # << >>
    /\ createOverdueFine(DB, l, now, config, "none").outcome = "null"

(* C17: createLostBookFine creates a lost fine of replacementCost * 2 for
   every replacementCost supplied, of book.price * 2 only when none is
   supplied, marks the loan lost and completed, and adds exactly that amount
   to the user's fineBalance. *)
C17_LostBookFine ==
  \A l \in Loans, cost \in CostChoices :
    LET r == createLostBookFine(DB, l, cost, "none")
        u == borrows[l].user
        expected == (IF cost = << >> THEN borrows[l].price ELSE cost[1]) * LostBookMultiplier
    IN ~ExistingFine(fines, l, "lost") =>
         /\ r.outcome = "ok"
         /\ r.db.fines[r.fine].type = "lost"
         /\ r.db.fines[r.fine].amount = expected
         /\ r.db.borrows[l].isLost
         /\ r.db.borrows[l].status = "completed"
         /\ r.db.fineBalance[u] = fineBalance[u] + expected

(* C18: a successful payFine on a pending fine of amount A sets its status to
   paid, stamps paidBy and paidAt, takes exactly A off the owner's
   fineBalance, and leaves every other fine and every other balance as it
   was. *)
C18_PayFineEffect ==
  \A f \in FineIds(fines) :
    LET r == payFine(DB, f, "staff", now, "none")
        u == fines[f].user
    IN fines[f].status = "pending" =>
         /\ r.outcome = "ok"
         /\ r.fine = f
         /\ r.db.fines[f] = [fines[f] EXCEPT !.status = "paid", !.paidBy = "staff",
                                              !.paidAt = now]
         /\ r.db.fineBalance[u] = fineBalance[u] - fines[f].amount
         /\ Len(r.db.fines) = Len(fines)
         /\ \A g \in FineIds(fines) \ {f} : r.db.fines[g] = fines[g]
         /\ \A v \in Users \ {u} : r.db.fineBalance[v] = fineBalance[v]
         /\ r.db.borrows = borrows

(* One of two fines has been paid once, by staff, and the other is still
   pending *)
C18_Witness ==
  \E f \in FineIds(fines), g \in FineIds(fines) :
    /\ f # g
    /\ fines[f].status = "paid"
    /\ fines[f].paidBy = "staff"
    /\ fines[f].paidAt >= 0
    /\ deductions[f] = 1
    /\ fines[g].status = "pending"
    /\ deductions[g] = 0

(* C20: the amount of a fine never changes once the fine exists: no sweep,
   recalculation, payment or waiver alters it, however long the loan stays
   overdue. *)
C20_AmountKept ==
  \A f \in FineIds(fines) :
    /\ f \in FineIds(fines')
    /\ fines'[f].amount = fines[f].amount
    /\ fines'[f].borrow = fines[f].borrow
    /\ fines'[f].type = fines[f].type

C20_AmountImmutable == [][C20_AmountKept]_vars

(* An overdue fine of a loan still open carries less than the calculator
   computes for the loan now, and a sweep at this moment leaves it alone *)
C20_Witness ==
  \E f \in FineIds(fines) :
    /\ fines[f].type = "overdue"
    /\ IsOverdueBorrow(borrows[fines[f].borrow], now)
    /\ calculateOverdueFine(borrows[fines[f].borrow], now, config).fineAmount > fines[f].amount
    /\ processOverdueFines(DB, now, config, NoFailure).db.fines = fines

(* The kinds and states a loan record can be in when a sweep meets it *)
BorrowTypes == {"borrowed", "reservation"}
BorrowStatuses == {"active", "completed", "cancelled"}

(* C21: a sweep enters fine creation only for loans of type borrowed, status
   active and dueDate before now that have no overdue fine; reservations,
   completed, cancelled and already fined loans are not charged by it, and
   totalOverdue is the number of loans matching type, status and dueDate. *)
C21_SweepFilter ==
  \A failOf \in [Loans -> FailModes], l0 \in Loans,
     ty \in BorrowTypes, st \in BorrowStatuses :
    LET db0 == [DB EXCEPT !.borrows[l0].type = ty, !.borrows[l0].status = st]
        s == processOverdueFines(db0, now, config, failOf)
        matching == {l \in Loans : /\ db0.borrows[l].type = "borrowed"
                                   /\ db0.borrows[l].status = "active"
                                   /\ db0.borrows[l].dueDate < now}
    IN /\ s.totalOverdue = Cardinality(matching)
       /\ s.attempted \subseteq matching
       /\ s.counted \subseteq {l \in matching : ~ExistingFine(fines, l, "overdue")}
       /\ \A l \in Loans :
            (l \notin matching \/ ExistingFine(fines, l, "overdue")) =>
              /\ AllFinesOfLoan(s.db.fines, l) = AllFinesOfLoan(fines, l)
              /\ s.db.charges[l] = charges[l]
       /\ \A f \in FineIds(fines) : s.db.fines[f] = fines[f]

(* Of two loans past grace and without fines, one has been returned: a sweep
   charges the open one and leaves the returned one alone *)
C21_Witness ==
  \E l \in Loans, k \in Loans :
    /\ borrows[l].status = "completed"
    /\ now - borrows[l].dueDate >= (config.gracePeriod + 1) * TicksPerDay
    /\ OpenPastGrace(k)
    /\ fines = << >>
    /\ LET s == processOverdueFines(DB, now, config, NoFailure)
       IN /\ s.counted = {k}
          /\ OverdueCount(s.db.fines, k) = 1
          /\ OverdueCount(s.db.fines, l) = 0
          /\ s.totalOverdue = 1

(* C22: within one createOverdueFine call the steps occur in this order: the
   duplicate-fine read comes before the fine record is written, the fine
   record is written before fineBalance is incremented, and fineBalance is
   incremented before the notification is sent.  In every state each loan's
   written overdue fines are its charged ones plus those of calls standing
   between the write and the increment, its charged ones are its notified
   ones plus those of calls standing between the increment and the send; and
   every step that writes, charges or notifies is taken by a call that stands
   at that step, having come there from the step before it. *)
StepRank(pc) ==
  CASE pc = "findOne" -> 1
    [] pc = "calculate" -> 2
    [] pc = "readGrace" -> 3
    [] pc = "create" -> 4
    [] pc = "incBalance" -> 5
    [] pc = "notify" -> 6
    [] OTHER -> 0

CallsAt(l, pc) == Cardinality({p \in Procs : procs[p].pc = pc /\ procs[p].loan = l})

NoticeCount(l) ==
  Cardinality({n \in notices : /\ n[1] = "fine_notice"
                               /\ n[2] \in 1..Len(fines)
                               /\ fines[n[2]].borrow = l})

C22_WrittenChargedNotified ==
  \A l \in Loans :
    /\ OverdueCount(fines, l) = charges[l] + CallsAt(l, "incBalance")
    /\ charges[l] = NoticeCount(l) + CallsAt(l, "notify")

C22_StepFollowsStep ==
  /\ \A p \in Procs :
       LET a == procs[p]
           b == procs'[p]
       IN /\ StepRank(b.pc) > 1 =>
               /\ StepRank(a.pc) \in {StepRank(b.pc), StepRank(b.pc) - 1}
               /\ b.loan = a.loan
          /\ (a.pc = "findOne" /\ b.pc = "calculate") =>
               ~ExistingFine(fines, a.loan, "overdue")
  /\ fines' # fines =>
       \E p \in Procs : /\ procs[p].pc = "create" /\ procs'[p].pc = "incBalance"
                        /\ fines' = Append(fines, fines'[procs'[p].fineId])
                        /\ fineBalance' = fineBalance /\ notices' = notices
  /\ (fineBalance' # fineBalance \/ charges' # charges) =>
       \E p \in Procs : /\ procs[p].pc = "incBalance" /\ procs'[p].pc = "notify"
                        /\ procs[p].fineId \in 1..Len(fines)
                        /\ fines[procs[p].fineId].borrow = procs[p].loan
                        /\ <<"fine_notice", procs[p].fineId>> \notin notices
                        /\ notices' = notices
  /\ notices' # notices =>
       \E p \in Procs : /\ procs[p].pc = "notify"
                        /\ notices' = notices \cup {<<"fine_notice", procs[p].fineId>>}
                        /\ charges[procs[p].loan] >= 1

C22_StepOrder == []C22_WrittenChargedNotified /\ [][C22_StepFollowsStep]_vars

C22_Witness ==
  \E p \in Procs :
    /\ procs[p].pc = "idle"
    /\ \E f \in 1..Len(fines) :
         /\ fines[f].type = "overdue"
         /\ charges[fines[f].borrow] = 1
         /\ <<"fine_notice", f>> \in notices

(* C23: the processedCount returned by processOverdueFines equals the number
   of fine records of type overdue created during that sweep. *)
C23_CountIsCreated ==
  \A failOf \in [Loans -> FailModes] :
    LET s == processOverdueFines(DB, now, config, failOf)
        created == {f \in 1..Len(s.db.fines) : f > Len(fines) /\ s.db.fines[f].type = "overdue"}
    IN s.processedCount = Cardinality(created)

(* C24: starting from fineBalance 0 with no fines, after any sequence of
   createOverdueFine, createLostBookFine, payFine and waiveFine calls, every
   user's fineBalance is at least 0. *)
C24_BalanceNonNegative ==
  \A u \in Users : fineBalance[u] >= 0

----------------------------------------------------------------------------
(* The lending desk with the fines: loans are reserved, issued, returned and
   declared lost, fines are paid and waived, one request at a time *)

InitLib ==
  /\ now = 0
  /\ config = DefaultConfig
  /\ borrows = << >>
  /\ fines = << >>
  /\ fineBalance = [u \in Users |-> 0]
  /\ charges = [l \in Loans |-> 0]
  /\ deductions = << >>
  /\ notices = {}
  /\ calcResult = [borrow |-> 0, result |-> NoCalc]
  /\ procs = [p \in Procs |-> IdleProc]
  /\ availableCopies = [b \in Books |-> TotalCopiesOf(b)]
  /\ currentBooksBorrowed = [u \in Users |-> 0]
  /\ requests = [p \in Procs |-> IdleRequest]
  /\ notifications = << >>

(* The due date a librarian enters: a day from now *)
DueDateAt(t) == t + TicksPerDay

deskRest == <<requests, notifications, now, config, fines, fineBalance, charges,
              deductions, notices, calcResult, procs>>

Reserve ==
  \E u \in Users, b \in Books, fail \in {"none", "save"} :
    \E r \in {reserve(Desk, u, b, fail)} :
      /\ Len(r.desk.borrows) <= NumLoans
      /\ CommitDesk(r.desk)
      /\ UNCHANGED deskRest

Issue ==
  \E u \in Users, b \in Books, fail \in DeskFailModes :
    \E r \in {issue(Desk, u, b, DueDateAt(now), fail)} :
      /\ Len(r.desk.borrows) <= NumLoans
      /\ CommitDesk(r.desk)
      /\ UNCHANGED deskRest

Return ==
  \E l \in 0 .. Len(borrows), fail \in DeskFailModes :
    \E r \in {returnBook(Desk, l, fail)} :
      /\ CommitDesk(r.desk)
      /\ UNCHANGED deskRest

LostBook ==
  \E l \in 1 .. Len(borrows), cost \in CostChoices, fail \in FailModes :
    \E r \in {createLostBookFine(DB, l, cost, fail)} :
      /\ Len(r.db.fines) <= MaxFines
      /\ Commit(r.db)
      /\ UNCHANGED <<deskVars, now, config, calcResult, procs>>

NextLib ==
  \/ Reserve
  \/ Issue
  \/ Return
  \/ LostBook
  \/ PayFine
  \/ WaiveFine

SpecLib == InitLib /\ [][NextLib]_vars

(* C25: the issue operation never creates a borrowed loan for a user who has
   a pending fine of positive amount, and when it rejects for outstanding
   fines it creates no loan and changes neither the book's availableCopies
   nor the user's currentBooksBorrowed. *)
HasPendingFine(u) ==
  \E f \in FineIds(fines) :
    fines[f].user = u /\ fines[f].status = "pending" /\ fines[f].amount > 0

C25_NoIssueWithPendingFine ==
  \A u \in Users, b \in Books, fail \in DeskFailModes :
    LET r == issue(Desk, u, b, DueDateAt(now), fail) IN
    /\ HasPendingFine(u) => r.desk.borrows = borrows
    /\ r.outcome = "OutstandingFines" => r.desk = Desk

(* C26: after any sequence of reserve, issue, return and createLostBookFine
   operations, each user's currentBooksBorrowed is the number of that user's
   loans of type borrowed and status active, and is never negative. *)
C26_CounterIsActiveLoans ==
  \A u \in Users :
    /\ currentBooksBorrowed[u] = Cardinality(LoansOfUser(borrows, u))
    /\ currentBooksBorrowed[u] >= 0

----------------------------------------------------------------------------
(* Concurrent issue requests: POST /api/borrows/issue one await at a time.
   Each request holds the user and book documents it has read. *)

issueRest == <<now, config, fines, fineBalance, charges, deductions, notices,
               calcResult, procs, notifications>>

(* Line 173: a request for a user and a book arrives *)
CallIssue(p) ==
  \E u \in Users, b \in Books :
    /\ requests[p].pc = "idle"
    /\ requests' = [requests EXCEPT ![p] = [IdleRequest EXCEPT !.pc = "findUser",
                                                              !.user = u, !.book = b]]
    /\ UNCHANGED <<borrows, availableCopies, currentBooksBorrowed, issueRest>>

(* Line 194: User.findById *)
FindUser(p) ==
  LET c == requests[p] IN
  /\ c.pc = "findUser"
  /\ requests' = [requests EXCEPT ![p] =
       [c EXCEPT !.pc = "findBook", !.borrowedRead = currentBooksBorrowed[c.user],
                 !.balanceRead = fineBalance[c.user]]]
  /\ UNCHANGED <<borrows, availableCopies, currentBooksBorrowed, issueRest>>

(* Lines 203-233: Book.findById and the checks on the two documents *)
FindBook(p) ==
  LET c == requests[p]
      rejected == \/ availableCopies[c.book] = 0
                  \/ c.borrowedRead >= MaxBooksAllowed
                  \/ c.balanceRead > 0
  IN
  /\ c.pc = "findBook"
  /\ requests' = [requests EXCEPT ![p] =
       IF rejected THEN IdleRequest
       ELSE [c EXCEPT !.pc = "save", !.copiesRead = availableCopies[c.book]]]
  /\ UNCHANGED <<borrows, availableCopies, currentBooksBorrowed, issueRest>>

(* Lines 236-246: borrow.save() *)
SaveBorrow(p) ==
  LET c == requests[p] IN
  /\ c.pc = "save"
  /\ Len(borrows) < NumLoans
  /\ borrows' = Append(borrows, NewBorrow(c.user, c.book, "borrowed", DueDateAt(now)))
  /\ requests' = [requests EXCEPT ![p] = [c EXCEPT !.pc = "updateCopies"]]
  /\ UNCHANGED <<availableCopies, currentBooksBorrowed, issueRest>>

(* Line 249: book.updateAvailableCopies(-1) on the document read at line 203 *)
UpdateCopies(p) ==
  LET c == requests[p] IN
  /\ c.pc = "updateCopies"
  /\ availableCopies' = updateAvailableCopies(availableCopies, c.book, c.copiesRead, 0 - 1)
  /\ requests' = [requests EXCEPT ![p] = [c EXCEPT !.pc = "incUser"]]
  /\ UNCHANGED <<borrows, currentBooksBorrowed, issueRest>>

(* Lines 252-254: $inc currentBooksBorrowed *)
IncBorrowed(p) ==
  LET c == requests[p] IN
  /\ c.pc = "incUser"
  /\ currentBooksBorrowed' = [currentBooksBorrowed EXCEPT ![c.user] = @ + 1]
  /\ requests' = [requests EXCEPT ![p] = IdleRequest]
  /\ UNCHANGED <<borrows, availableCopies, issueRest>>

NextIssue ==
  \/ \E p \in Procs : CallIssue(p)
  \/ \E p \in Procs : FindUser(p)
  \/ \E p \in Procs : FindBook(p)
  \/ \E p \in Procs : SaveBorrow(p)
  \/ \E p \in Procs : UpdateCopies(p)
  \/ \E p \in Procs : IncBorrowed(p)

SpecIssue == InitLib /\ [][NextIssue]_vars

(* C27: however concurrent issue requests for one book interleave, the
   number of its loans of type borrowed and status active never exceeds the
   book's totalCopies. *)
C27_LoansWithinCopies ==
  \A b \in Books : Cardinality(LoansOfBook(borrows, b)) <= TotalCopiesOf(b)

----------------------------------------------------------------------------
(* createOverdueFine while an administrator changes the policy: the calls
   one await at a time, and PUT /api/admin/config between any two awaits *)

GraceChoices == 0 .. DefaultGracePeriod

(* updateFineConfiguration({ gracePeriod }): SystemConfig.setValue *)
UpdateFineConfiguration ==
  \E g \in GraceChoices :
    /\ g # config.gracePeriod
    /\ config' = [config EXCEPT !.gracePeriod = g]
    /\ UNCHANGED <<deskVars, now, borrows, fines, fineBalance, charges, deductions,
                   notices, calcResult, procs>>

(* One createOverdueFine call at a time is enough for the update to fall
   between two of its awaits *)
CfgProcs == {1}

NextCfg ==
  \/ Tick
  \/ UpdateFineConfiguration
  \/ \E p \in CfgProcs : CallCreateOverdueFine(p)
  \/ \E p \in CfgProcs : FindExisting(p)
  \/ \E p \in CfgProcs : Calculate(p)
  \/ \E p \in CfgProcs : ReadGrace(p)
  \/ \E p \in CfgProcs : CreateFine(p)
  \/ \E p \in CfgProcs : IncrementBalance(p)
  \/ \E p \in CfgProcs : SendFineNotice(p)

SpecCfg == Init /\ [][NextCfg]_vars

(* C28: the gracePeriod recorded on an overdue fine is the grace period
   calculateOverdueFine used for that fine's amount and overdueDays, also
   when the policy is updated while createOverdueFine runs. *)
C28_RecordedGraceIsUsed ==
  \A p \in Procs :
    procs[p].pc \in {"incBalance", "notify"} =>
      fines[procs[p].fineId].gracePeriod = procs[p].calcGrace

----------------------------------------------------------------------------
(* Notifications: the record of models/User.js and sendNotification of
   notificationService.js.  A date that is not set is -1. *)

Channels == {"sms", "email", "in_app"}

ChannelLists == {<<"email">>, <<"sms">>, <<"sms", "email">>, <<"email", "sms">>, <<"in_app">>}

(* Notification.create: the schema's defaults *)
NewNotification(channels) ==
  [channels |-> channels, status |-> "pending", smsStatus |-> "pending",
   emailStatus |-> "pending", sentAt |-> 0 - 1, deliveredAt |-> 0 - 1, failedAt |-> 0 - 1,
   retryCount |-> 0, maxRetries |-> DefaultMaxRetries]

(* notificationSchema.methods.markAsSent *)
markAsSent(n, channel, t) ==
  LET m == IF channel = "sms" THEN [n EXCEPT !.smsStatus = "sent"]
           ELSE IF channel = "email" THEN [n EXCEPT !.emailStatus = "sent"]
           ELSE n
  IN IF m.smsStatus = "sent" /\ m.emailStatus = "sent"
       THEN [m EXCEPT !.status = "sent", !.sentAt = t]
       ELSE m

(* notificationSchema.methods.markAsDelivered *)
markAsDelivered(n, channel, t) ==
  LET m == IF channel = "sms" THEN [n EXCEPT !.smsStatus = "delivered"]
           ELSE IF channel = "email" THEN [n EXCEPT !.emailStatus = "delivered"]
           ELSE n
  IN IF m.smsStatus = "delivered" /\ m.emailStatus = "delivered"
       THEN [m EXCEPT !.status = "delivered", !.deliveredAt = t]
       ELSE m

(* A failure handler that retries without end *)
RetryOrFail_AlwaysRetry(n) == [n EXCEPT !.retryCount = @ + 1, !.status = "pending"]

(* Lines 362-367 of markAsFailed *)
RetryOrFail(n) ==
  IF n.retryCount < n.maxRetries
    THEN [n EXCEPT !.retryCount = @ + 1, !.status = "pending"]
    ELSE [n EXCEPT !.status = "failed"]

(* notificationSchema.methods.markAsFailed *)
markAsFailed(n, channel, t) ==
  LET m == IF channel = "sms" THEN [n EXCEPT !.smsStatus = "failed"]
           ELSE IF channel = "email" THEN [n EXCEPT !.emailStatus = "failed"]
           ELSE n
  IN RetryOrFail([m EXCEPT !.failedAt = t])

(* One turn of the loop of sendNotification, lines 122-142: the channel is
   sent and marked, skipped when the user has no address for it, or marked
   failed when the send throws *)
SendChannel(n, channel, contact, throws, t) ==
  IF channel \in contact /\ throws THEN markAsFailed(n, channel, t)
  ELSE IF channel \in contact /\ channel \in {"sms", "email"} THEN markAsSent(n, channel, t)
  ELSE n

RECURSIVE SendChannels(_, _, _, _, _)
SendChannels(n, channels, contact, failing, t) ==
  IF channels = << >> THEN n
  ELSE SendChannels(SendChannel(n, Head(channels), contact, Head(channels) \in failing, t),
                    Tail(channels), contact, failing, t)

(* sendNotification: the record as it stands when the call returns.  contact
   is the set of channels the user can be reached on, failing the set of
   channels whose send throws. *)
sendNotification(channels, contact, failing, t) ==
  SendChannels(NewNotification(channels), channels, contact, failing, t)

InitNotif ==
  /\ now = 0
  /\ config = DefaultConfig
  /\ borrows = InitBorrows
  /\ fines = << >>
  /\ fineBalance = [u \in Users |-> 0]
  /\ charges = [l \in Loans |-> 0]
  /\ deductions = << >>
  /\ notices = {}
  /\ calcResult = [borrow |-> 0, result |-> NoCalc]
  /\ procs = [p \in Procs |-> IdleProc]
  /\ InitDesk

notifRest == <<now, config, borrows, fines, fineBalance, charges, deductions, notices,
               calcResult, procs, availableCopies, currentBooksBorrowed, requests>>

SendNotification ==
  \E channels \in ChannelLists, contact \in SUBSET {"sms", "email"},
     failing \in SUBSET {"sms", "email"} :
    /\ Len(notifications) < MaxNotifications
    /\ notifications' = Append(notifications, sendNotification(channels, contact, failing, now))
    /\ UNCHANGED notifRest

MarkAsSent ==
  \E i \in 1 .. Len(notifications), channel \in Channels :
    /\ notifications' = [notifications EXCEPT ![i] = markAsSent(@, channel, now)]
    /\ UNCHANGED notifRest

MarkAsDelivered ==
  \E i \in 1 .. Len(notifications), channel \in Channels :
    /\ notifications' = [notifications EXCEPT ![i] = markAsDelivered(@, channel, now)]
    /\ UNCHANGED notifRest

MarkAsFailed ==
  \E i \in 1 .. Len(notifications), channel \in Channels :
    /\ notifications' = [notifications EXCEPT ![i] = markAsFailed(@, channel, now)]
    /\ UNCHANGED notifRest

NextNotif ==
  \/ SendNotification
  \/ MarkAsSent
  \/ MarkAsDelivered
  \/ MarkAsFailed

SpecNotif == InitNotif /\ [][NextNotif]_vars

(* C29: when sendNotification finishes and every channel requested was sent
   successfully, the record's status is sent and sentAt is set, for every
   channel list, a single-channel list such as <<"email">> included. *)
C29_AllSentIsSent ==
  \A channels \in ChannelLists, contact \in SUBSET {"sms", "email"} :
    LET n == sendNotification(channels, contact, {}, now)
        requested == {channels[i] : i \in 1 .. Len(channels)}
    IN (requested \subseteq contact) => n.status = "sent" /\ n.sentAt # 0 - 1

(* C30: after any sequence of markAsSent, markAsDelivered and markAsFailed
   calls retryCount never exceeds maxRetries; markAsFailed adds one to
   retryCount and sets status pending while retryCount < maxRetries, and sets
   status failed without adding once retryCount has reached maxRetries. *)
C30_RetriesWithinMax ==
  \A i \in 1 .. Len(notifications) :
    LET n == notifications[i] IN
    /\ n.retryCount <= n.maxRetries
    /\ n.retryCount >= 0
    /\ \A channel \in Channels :
         LET m == markAsFailed(n, channel, now) IN
         IF n.retryCount < n.maxRetries
           THEN m.retryCount = n.retryCount + 1 /\ m.status = "pending"
           ELSE m.retryCount = n.retryCount /\ m.status = "failed"

C30_Witness ==
  \E i \in 1 .. Len(notifications) :
    /\ notifications[i].retryCount = notifications[i].maxRetries
    /\ notifications[i].status = "failed"

====
